---- MODULE Spec2Model ----
(***************************************************************************)
(* Authenticated 2D range queries over a bulk-loaded Merkle R-tree          *)
(* (src/CSQV): build_2d_tree, range_query_2d and verify_2d as a state      *)
(* machine.  A digest is modelled symbolically: sha256 is collision-free,  *)
(* so a digest is the byte buffer it was computed from.                    *)
(***************************************************************************)
EXTENDS Integers, Sequences, FiniteSets, TLC

\* ------------------------------------------------------------- bounds
MaxPoints == 5
MaxCoord == 1
MaxId == 1
MaxCap == 2
MaxHeight == 4
MaxShapePoints == 7
MaxShapeCap == 3
MaxZeroLoop == 3
MaxStale == 9

Ids == 0..MaxId
Coords == 0..MaxCoord

Min(a, b) == IF a <= b THEN a ELSE b
Max(a, b) == IF a >= b THEN a ELSE b

\* ------------------------------------------------------ Point2D
\* struct Point2D { uint32_t id; Point loc; }
Point2D(id, x, y) == [id |-> id, loc |-> [x |-> x, y |-> y]]

PointUniverse == {Point2D(i, a, b) : i \in Ids, a \in Coords, b \in Coords}

\* Point::operator<: the lexicographic (x, y) order.
LocLess(a, b) ==
  \/ a.x < b.x
  \/ a.x = b.x /\ a.y < b.y

\* Point2D::operator< without Z_INDEX: return loc < other.loc;
PointLess(p, q) == LocLess(p.loc, q.loc)

\* --------------------------------------------------------- Geometry
INT32_MAX == 2147483647
INT32_MIN == -2147483647 - 1

Rectangle(lx, ly, ux, uy) == [lx |-> lx, ly |-> ly, ux |-> ux, uy |-> uy]

\* The empty sentinel, the identity of enlarge.
EMPTY_RECT == Rectangle(INT32_MAX, INT32_MAX, INT32_MIN, INT32_MIN)

enlarge(r, s) ==
  Rectangle(Min(r.lx, s.lx), Min(r.ly, s.ly), Max(r.ux, s.ux), Max(r.uy, s.uy))

enlarge_point(r, p) ==
  Rectangle(Min(r.lx, p.x), Min(r.ly, p.y), Max(r.ux, p.x), Max(r.uy, p.y))

\* Closed intervals overlap on both axes.
intersect(a, b) ==
  /\ a.lx <= b.ux /\ b.lx <= a.ux
  /\ a.ly <= b.uy /\ b.ly <= a.uy

\* contains with the test against q.uy left out.
contains_no_uy(p, q) ==
  /\ q.lx <= p.loc.x /\ p.loc.x <= q.ux
  /\ q.ly <= p.loc.y

\* contains with strict comparisons: a point on the border is outside.
contains_open(p, q) ==
  /\ q.lx < p.loc.x /\ p.loc.x < q.ux
  /\ q.ly < p.loc.y /\ p.loc.y < q.uy

\* bool contains(const Point2D &p, const Rectangle &q)
contains(p, q) ==
  /\ q.lx <= p.loc.x /\ p.loc.x <= q.ux
  /\ q.ly <= p.loc.y /\ p.loc.y <= q.uy

\* size_t count_in_range(points, q): the brute-force count.
RECURSIVE count_in_range(_, _)
count_in_range(pts, q) ==
  IF pts = <<>> THEN 0
  ELSE (IF contains(Head(pts), q) THEN 1 ELSE 0) + count_in_range(Tail(pts), q)

\* std::vector<Point2D> range_query(points, q): the brute-force scan.
RECURSIVE range_query(_, _)
range_query(pts, q) ==
  IF pts = <<>> THEN <<>>
  ELSE IF contains(Head(pts), q)
       THEN <<Head(pts)>> \o range_query(Tail(pts), q)
       ELSE range_query(Tail(pts), q)

\* ------------------------------------------------- Hash buffer
\* A buffer is the concatenation of what was appended, with no framing: a
\* sequence of chunks, each the raw bytes followed by at most one digest
\* (a digest stands for its 32 bytes).
Byte(u, k) == (u \div (256 ^ k)) % 256

\* Little-endian two's complement, 4 bytes.
LE32(v) ==
  IF v >= 0
  THEN <<Byte(v, 0), Byte(v, 1), Byte(v, 2), Byte(v, 3)>>
  ELSE <<255 - Byte(-v - 1, 0), 255 - Byte(-v - 1, 1),
         255 - Byte(-v - 1, 2), 255 - Byte(-v - 1, 3)>>

EmptyBuffer == <<>>

BufferClosed(buf) == buf = <<>> \/ buf[Len(buf)].hash # <<>>

\* Buffer::put(int32_t) / put(uint32_t)
put(buf, v) ==
  IF BufferClosed(buf)
  THEN Append(buf, [raw |-> LE32(v), hash |-> <<>>])
  ELSE [buf EXCEPT ![Len(buf)].raw = @ \o LE32(v)]

\* Buffer::put_bytes(hash.data(), hash.size())
put_bytes(buf, h) ==
  IF BufferClosed(buf)
  THEN Append(buf, [raw |-> <<>>, hash |-> <<h>>])
  ELSE [buf EXCEPT ![Len(buf)].hash = <<h>>]

\* hash_t{}: 32 zero bytes, the digest of no buffer.
ZeroHash == [zero |-> TRUE, sha |-> <<>>]

\* sha256(buf), collision-free.
sha256(buf) == [zero |-> FALSE, sha |-> buf]

\* put_point2d that serializes the location and leaves the id out.
put_point2d_no_id(buf, p) == put(put(buf, p.loc.x), p.loc.y)

\* void put_point2d(Buffer &buf, const Point2D &p)
put_point2d(buf, p) == put(put(put(buf, p.id), p.loc.x), p.loc.y)

\* Rectangle compute_mbr(const std::vector<Point2D> &points)
RECURSIVE mbr_loop(_, _)
mbr_loop(pts, mbr) ==
  IF pts = <<>> THEN mbr
  ELSE mbr_loop(Tail(pts), enlarge_point(mbr, Head(pts).loc))

compute_mbr(pts) == IF pts = <<>> THEN EMPTY_RECT ELSE mbr_loop(pts, EMPTY_RECT)

\* ------------------------------------------------- Tree node model
Null == [type |-> "NULL"]

LeafNode2D(r, h, pts) ==
  [type |-> "N2D_LEAF", rect |-> r, hash |-> h, points |-> pts, children |-> <<>>]

IntNode2D(r, h, ch) ==
  [type |-> "N2D_INT", rect |-> r, hash |-> h, points |-> <<>>, children |-> ch]

RECURSIVE leaf_buf(_, _)
leaf_buf(pts, buf) ==
  IF pts = <<>> THEN buf ELSE leaf_buf(Tail(pts), put_point2d(buf, Head(pts)))

\* LeafNode2D *make_leaf_2d(std::vector<Point2D> points)
make_leaf_2d(pts) ==
  IF pts = <<>> THEN LeafNode2D(EMPTY_RECT, ZeroHash, <<>>)
  ELSE LeafNode2D(compute_mbr(pts), sha256(leaf_buf(pts, EmptyBuffer)), pts)

\* One (rectangle, digest) entry of an internal node's buffer.
put_entry(buf, r, h) ==
  put_bytes(put(put(put(put(buf, r.lx), r.ly), r.ux), r.uy), h)

\* The loop of make_internal_2d with node_rect assigned each child's
\* rectangle instead of being enlarged by it.
RECURSIVE internal_loop_overwrite(_, _, _)
internal_loop_overwrite(ch, rect, buf) ==
  IF ch = <<>> THEN <<rect, buf>>
  ELSE internal_loop_overwrite(Tail(ch), Head(ch).rect,
                               put_entry(buf, Head(ch).rect, Head(ch).hash))

\* The loop of make_internal_2d: <<rect, buf>> after all children.
RECURSIVE internal_loop(_, _, _)
internal_loop(ch, rect, buf) ==
  IF ch = <<>> THEN <<rect, buf>>
  ELSE internal_loop(Tail(ch), enlarge(rect, Head(ch).rect),
                     put_entry(buf, Head(ch).rect, Head(ch).hash))

\* IntNode2D *make_internal_2d(std::vector<Node2D*> children)
make_internal_2d(ch) ==
  IF ch = <<>> THEN IntNode2D(EMPTY_RECT, ZeroHash, <<>>)
  ELSE LET rb == internal_loop(ch, EMPTY_RECT, EmptyBuffer)
       IN  IntNode2D(rb[1], sha256(rb[2]), ch)

\* int count_2d_leaves(Node2D *root)
RECURSIVE count_2d_leaves(_)
RECURSIVE count_child_leaves(_, _)
count_child_leaves(ch, count) ==
  IF ch = <<>> THEN count
  ELSE count_child_leaves(Tail(ch), count + count_2d_leaves(Head(ch)))

count_2d_leaves(node) ==
  IF node = Null THEN 0
  ELSE IF node.type = "N2D_LEAF" THEN 1
  ELSE count_child_leaves(node.children, 0)

\* int height_2d_tree(Node2D *root)
RECURSIVE height_2d_tree(_)
RECURSIVE max_child_height(_, _)
max_child_height(ch, m) ==
  IF ch = <<>> THEN m
  ELSE max_child_height(Tail(ch), Max(m, height_2d_tree(Head(ch))))

\* height_2d_tree counting edges instead of levels: a leaf has height 0.
height_2d_tree_edges(node) ==
  IF node = Null THEN 0
  ELSE IF node.type = "N2D_LEAF" THEN 0
  ELSE max_child_height(node.children, 0) + 1

height_2d_tree(node) ==
  IF node = Null THEN 0
  ELSE IF node.type = "N2D_LEAF" THEN 1
  ELSE max_child_height(node.children, 0) + 1

\* ---------------------------------------------------- Bulk loader
\* std::sort(points.begin(), points.end()): any arrangement of the points
\* that is ordered by operator<; the order of equivalent points is not
\* specified.
IsSorted(s) == \A i \in 1..(Len(s) - 1) : ~PointLess(s[i + 1], s[i])

PermutationsOf(s) ==
  IF s = <<>> THEN {<<>>}
  ELSE {[i \in 1..Len(s) |-> s[f[i]]] : f \in Permutations(1..Len(s))}

std_sort(s) == {t \in PermutationsOf(s) : IsSorted(t)}

\* The leaf loop with the chunk end one past i + capacity.
RECURSIVE leaf_level_overrun(_, _, _, _)
leaf_level_overrun(pts, cap, i, level) ==
  IF i >= Len(pts) THEN level
  ELSE LET end == Min(Len(pts), i + cap + 1)
       IN  leaf_level_overrun(pts, cap, i + cap,
                              Append(level, make_leaf_2d(SubSeq(pts, i + 1, end))))

\* for (i = 0; i < points.size(); i += capacity) push_back(make_leaf_2d(chunk))
RECURSIVE leaf_level(_, _, _, _)
leaf_level(pts, cap, i, level) ==
  IF i >= Len(pts) THEN level
  ELSE LET end == Min(Len(pts), i + cap)
       IN  leaf_level(pts, cap, i + cap,
                      Append(level, make_leaf_2d(SubSeq(pts, i + 1, end))))

\* The level loop with the chunk end at i + capacity - 1 (at least one
\* node): a chunk of a fanout above 1 is one node short and the node after
\* it is left out.
RECURSIVE next_level_short_chunk(_, _, _, _)
next_level_short_chunk(cur, cap, i, level) ==
  IF i >= Len(cur) THEN level
  ELSE LET end == Min(Len(cur), Max(i + 1, i + cap - 1))
       IN  next_level_short_chunk(cur, cap, i + cap,
                                  Append(level, make_internal_2d(SubSeq(cur, i + 1, end))))

\* The level loop passing a chunk of a single node up as it is instead of
\* wrapping it in an internal node.
RECURSIVE next_level_carry_single(_, _, _, _)
next_level_carry_single(cur, cap, i, level) ==
  IF i >= Len(cur) THEN level
  ELSE LET end == Min(Len(cur), i + cap)
       IN  next_level_carry_single(
             cur, cap, i + cap,
             Append(level, IF end = i + 1 THEN cur[i + 1]
                           ELSE make_internal_2d(SubSeq(cur, i + 1, end))))

\* for (i = 0; i < current_level.size(); i += capacity)
\*   next_level.push_back(make_internal_2d(chunk))
RECURSIVE next_level(_, _, _, _)
next_level(cur, cap, i, level) ==
  IF i >= Len(cur) THEN level
  ELSE LET end == Min(Len(cur), i + cap)
       IN  next_level(cur, cap, i + cap,
                      Append(level, make_internal_2d(SubSeq(cur, i + 1, end))))

\* ------------------------------------------- Verification objects
NullVO == [type |-> "NULL"]

VLeaf2D(pts) ==
  [type |-> "V2D_LEAF", points |-> pts, rect |-> EMPTY_RECT,
   hash |-> ZeroHash, children |-> <<>>]

VPruned2D(r, h) ==
  [type |-> "V2D_PRUNED", points |-> <<>>, rect |-> r,
   hash |-> h, children |-> <<>>]

VContainer2D(ch) ==
  [type |-> "V2D_CONTAINER", points |-> <<>>, rect |-> EMPTY_RECT,
   hash |-> ZeroHash, children |-> ch]

\* void VContainer2D::append(VObject2D *vo) { if (vo) children.push_back(vo); }
append(container, v) ==
  IF v # NullVO THEN [container EXCEPT !.children = Append(@, v)] ELSE container

\* range_query_2d that prunes a node whose MBR only touches the query: the
\* overlap test with strict comparisons.
RECURSIVE range_query_2d_strict(_, _)
RECURSIVE query_children_strict(_, _, _)
query_children_strict(ch, q, container) ==
  IF ch = <<>> THEN container
  ELSE query_children_strict(Tail(ch), q,
                             append(container, range_query_2d_strict(Head(ch), q)))

range_query_2d_strict(node, q) ==
  IF node = Null THEN NullVO
  ELSE IF node.type = "N2D_LEAF" THEN VLeaf2D(node.points)
  ELSE IF ~(/\ node.rect.lx < q.ux /\ q.lx < node.rect.ux
            /\ node.rect.ly < q.uy /\ q.ly < node.rect.uy)
       THEN VPruned2D(node.rect, node.hash)
  ELSE query_children_strict(node.children, q, VContainer2D(<<>>))

\* range_query_2d with the intersection test made before the leaf test, so
\* that a leaf whose MBR misses the query is pruned as well.
RECURSIVE range_query_2d_prune_leaf(_, _)
RECURSIVE query_children_prune_leaf(_, _, _)
query_children_prune_leaf(ch, q, container) ==
  IF ch = <<>> THEN container
  ELSE query_children_prune_leaf(Tail(ch), q,
                                 append(container, range_query_2d_prune_leaf(Head(ch), q)))

range_query_2d_prune_leaf(node, q) ==
  IF node = Null THEN NullVO
  ELSE IF ~intersect(node.rect, q) THEN VPruned2D(node.rect, node.hash)
  ELSE IF node.type = "N2D_LEAF" THEN VLeaf2D(node.points)
  ELSE query_children_prune_leaf(node.children, q, VContainer2D(<<>>))

\* range_query_2d without the intersection test: every internal node is
\* explored.
RECURSIVE range_query_2d_no_prune(_, _)
RECURSIVE query_children_no_prune(_, _, _)
query_children_no_prune(ch, q, container) ==
  IF ch = <<>> THEN container
  ELSE query_children_no_prune(Tail(ch), q,
                               append(container, range_query_2d_no_prune(Head(ch), q)))

range_query_2d_no_prune(node, q) ==
  IF node = Null THEN NullVO
  ELSE IF node.type = "N2D_LEAF" THEN VLeaf2D(node.points)
  ELSE query_children_no_prune(node.children, q, VContainer2D(<<>>))

\* range_query_2d answering a pruned node with no VO at all.
RECURSIVE range_query_2d_null_pruned(_, _)
RECURSIVE query_children_null_pruned(_, _, _)
query_children_null_pruned(ch, q, container) ==
  IF ch = <<>> THEN container
  ELSE query_children_null_pruned(Tail(ch), q,
                                  append(container, range_query_2d_null_pruned(Head(ch), q)))

range_query_2d_null_pruned(node, q) ==
  IF node = Null THEN NullVO
  ELSE IF node.type = "N2D_LEAF" THEN VLeaf2D(node.points)
  ELSE IF ~intersect(node.rect, q) THEN NullVO
  ELSE query_children_null_pruned(node.children, q, VContainer2D(<<>>))

\* VObject2D *range_query_2d(Node2D *root, const Rectangle &query, stats)
RECURSIVE range_query_2d(_, _)
RECURSIVE query_children(_, _, _)
\* The children loop visiting only the children whose own MBR intersects
\* the query.
RECURSIVE query_children_skip_disjoint(_, _, _)
query_children_skip_disjoint(ch, q, container) ==
  IF ch = <<>> THEN container
  ELSE query_children_skip_disjoint(
         Tail(ch), q,
         IF intersect(Head(ch).rect, q)
         THEN append(container, range_query_2d(Head(ch), q))
         ELSE container)

query_children(ch, q, container) ==
  IF ch = <<>> THEN container
  ELSE query_children(Tail(ch), q, append(container, range_query_2d(Head(ch), q)))

range_query_2d(node, q) ==
  IF node = Null THEN NullVO
  ELSE IF node.type = "N2D_LEAF" THEN VLeaf2D(node.points)
  ELSE IF ~intersect(node.rect, q) THEN VPruned2D(node.rect, node.hash)
  ELSE query_children(node.children, q, VContainer2D(<<>>))

\* size_t count_points_2d(VObject2D *vo)
RECURSIVE count_points_2d(_)
RECURSIVE count_children(_, _)
count_children(ch, total) ==
  IF ch = <<>> THEN total
  ELSE count_children(Tail(ch), total + count_points_2d(Head(ch)))

count_points_2d(v) ==
  IF v = NullVO THEN 0
  ELSE IF v.type = "V2D_LEAF" THEN Len(v.points)
  ELSE IF v.type = "V2D_PRUNED" THEN 0
  ELSE count_children(v.children, 0)

\* ------------------------------------------------------- Verifier
NullResult == [type |-> "NULL"]

VResult2D(r, h, pts) == [type |-> "RESULT", rect |-> r, hash |-> h, points |-> pts]

\* The V2D_LEAF loop with put_point2d moved inside the contains test: only
\* the matching points are hashed.
RECURSIVE verify_leaf_loop_hash_matching(_, _, _, _, _)
verify_leaf_loop_hash_matching(pts, q, mbr, buf, matching) ==
  IF pts = <<>> THEN <<mbr, buf, matching>>
  ELSE LET p == Head(pts)
       IN  verify_leaf_loop_hash_matching(
             Tail(pts), q, enlarge_point(mbr, p.loc),
             IF contains(p, q) THEN put_point2d(buf, p) ELSE buf,
             IF contains(p, q) THEN Append(matching, p) ELSE matching)

\* The V2D_LEAF loop of verify_2d: <<leaf_mbr, buf, matching_points>>.
RECURSIVE verify_leaf_loop(_, _, _, _, _)
verify_leaf_loop(pts, q, mbr, buf, matching) ==
  IF pts = <<>> THEN <<mbr, buf, matching>>
  ELSE LET p == Head(pts)
       IN  verify_leaf_loop(Tail(pts), q, enlarge_point(mbr, p.loc),
                            put_point2d(buf, p),
                            IF contains(p, q) THEN Append(matching, p) ELSE matching)

verify_leaf(v, q) ==
  LET r == verify_leaf_loop(v.points, q, EMPTY_RECT, EmptyBuffer, <<>>)
  IN  VResult2D(r[1], sha256(r[2]), r[3])

verify_pruned(v) == VResult2D(v.rect, v.hash, <<>>)

\* VResult2D *verify_2d(VObject2D *vo, const Rectangle &query, stats)
RECURSIVE verify_2d(_, _)
\* The V2D_CONTAINER loop inserting each child's points at the front of
\* all_matching_points instead of at the end.
RECURSIVE verify_container_loop_prepend(_, _, _, _, _)
verify_container_loop_prepend(ch, q, mbr, buf, matching) ==
  IF ch = <<>> THEN <<mbr, buf, matching>>
  ELSE LET child_result == verify_2d(Head(ch), q)
       IN  verify_container_loop_prepend(
             Tail(ch), q, enlarge(mbr, child_result.rect),
             put_entry(buf, child_result.rect, child_result.hash),
             child_result.points \o matching)

\* The V2D_CONTAINER loop: <<combined_mbr, buf, all_matching_points>>.
RECURSIVE verify_container_loop(_, _, _, _, _)
verify_container_loop(ch, q, mbr, buf, matching) ==
  IF ch = <<>> THEN <<mbr, buf, matching>>
  ELSE LET child_result == verify_2d(Head(ch), q)
       IN  verify_container_loop(Tail(ch), q,
                                 enlarge(mbr, child_result.rect),
                                 put_entry(buf, child_result.rect, child_result.hash),
                                 matching \o child_result.points)

verify_container(v, q) ==
  LET r == verify_container_loop(v.children, q, EMPTY_RECT, EmptyBuffer, <<>>)
  IN  VResult2D(r[1], sha256(r[2]), r[3])

verify_2d(v, q) ==
  IF v = NullVO THEN NullResult
  ELSE IF v.type = "V2D_LEAF" THEN verify_leaf(v, q)
  ELSE IF v.type = "V2D_PRUNED" THEN verify_pruned(v)
  ELSE verify_container(v, q)

\* ------------------------------------------------- Statistics
\* struct QueryStats2D, the four counters (the two timings are not modelled).
QueryStats2D(visited, pruned, examined, returned) ==
  [nodes_visited |-> visited, nodes_pruned |-> pruned,
   points_examined |-> examined, points_returned |-> returned]

\* query_and_verify_2d: if (stats) { stats->nodes_visited = 0; ... }
reset_stats(st) ==
  [st EXCEPT !.nodes_visited = 0, !.nodes_pruned = 0,
             !.points_examined = 0, !.points_returned = 0]

\* range_query_2d with nodes_visited incremented after the pruning test, so
\* that a pruned node is not counted as visited.
RECURSIVE range_query_2d_stats_late_visit(_, _, _)
RECURSIVE query_children_stats_late_visit(_, _, _)
query_children_stats_late_visit(ch, q, st) ==
  IF ch = <<>> THEN st
  ELSE query_children_stats_late_visit(Tail(ch), q,
                                       range_query_2d_stats_late_visit(Head(ch), q, st))

range_query_2d_stats_late_visit(node, q, st) ==
  IF node = Null THEN st
  ELSE IF node.type = "N2D_LEAF"
       THEN [st EXCEPT !.nodes_visited = @ + 1,
                       !.points_examined = @ + Len(node.points)]
  ELSE IF ~intersect(node.rect, q)
       THEN [st EXCEPT !.nodes_pruned = @ + 1]
  ELSE query_children_stats_late_visit(node.children, q,
                                       [st EXCEPT !.nodes_visited = @ + 1])

\* What range_query_2d does to the collector it is handed.
RECURSIVE range_query_2d_stats(_, _, _)
RECURSIVE query_children_stats(_, _, _)
query_children_stats(ch, q, st) ==
  IF ch = <<>> THEN st
  ELSE query_children_stats(Tail(ch), q, range_query_2d_stats(Head(ch), q, st))

range_query_2d_stats(node, q, st) ==
  IF node = Null THEN st
  ELSE LET visited == [st EXCEPT !.nodes_visited = @ + 1]
       IN  IF node.type = "N2D_LEAF"
           THEN [visited EXCEPT !.points_examined = @ + Len(node.points)]
           ELSE IF ~intersect(node.rect, q)
                THEN [visited EXCEPT !.nodes_pruned = @ + 1]
           ELSE query_children_stats(node.children, q, visited)

\* The V2D_LEAF loop with points_returned incremented for every point of
\* the leaf, outside the contains test.
RECURSIVE verify_leaf_stats_count_all(_, _, _)
verify_leaf_stats_count_all(pts, q, st) ==
  IF pts = <<>> THEN st
  ELSE verify_leaf_stats_count_all(Tail(pts), q,
                                   [st EXCEPT !.points_returned = @ + 1])

\* What verify_2d's V2D_LEAF loop does to the collector.
RECURSIVE verify_leaf_stats(_, _, _)
verify_leaf_stats(pts, q, st) ==
  IF pts = <<>> THEN st
  ELSE verify_leaf_stats(Tail(pts), q,
                         IF contains(Head(pts), q)
                         THEN [st EXCEPT !.points_returned = @ + 1]
                         ELSE st)

\* What verify_2d does to the collector it is handed.
RECURSIVE verify_2d_stats(_, _, _)
RECURSIVE verify_children_stats(_, _, _)
verify_children_stats(ch, q, st) ==
  IF ch = <<>> THEN st
  ELSE verify_children_stats(Tail(ch), q, verify_2d_stats(Head(ch), q, st))

verify_2d_stats(v, q, st) ==
  IF v = NullVO THEN st
  ELSE IF v.type = "V2D_LEAF" THEN verify_leaf_stats(v.points, q, st)
  ELSE IF v.type = "V2D_PRUNED" THEN st
  ELSE verify_children_stats(v.children, q, st)

\* ------------------------------------------------------------ state
VARIABLES
  points,         \* the caller's point vector, sorted in place by the build
  capacity,       \* page fanout
  pc,             \* position of the build / query / verify sequence
  current_level,  \* build_2d_tree's current_level
  root,           \* the tree returned by build_2d_tree, or Null
  query,          \* the query rectangle
  vo,             \* the verification object in flight
  result,         \* the verifier's VResult2D
  tamper,         \* what was done to the VO between the server and the client
  rebuild,        \* "none" in the first build; how the second build got its input
  first_root,     \* the root the first build returned, kept for the second
  stats           \* the caller's QueryStats2D collector

vars == <<points, capacity, pc, current_level, root, query, vo, result,
          tamper, rebuild, first_root, stats>>

QueryRects ==
  {Rectangle(lx, ly, ux, uy) : lx \in Coords, ly \in Coords, ux \in Coords, uy \in Coords}

ValidQueryRects == {q \in QueryRects : q.lx <= q.ux /\ q.ly <= q.uy}

PointSeqs == UNION {[1..n -> PointUniverse] : n \in 0..MaxPoints}

Init ==
  /\ points \in PointSeqs
  /\ capacity \in 1..MaxCap
  /\ pc = "start"
  /\ current_level = <<>>
  /\ root = Null
  /\ query = EMPTY_RECT
  /\ vo = NullVO
  /\ result = NullResult
  /\ tamper = "none"
  /\ rebuild = "none"
  /\ first_root = Null
  /\ stats = QueryStats2D(0, 0, 0, 0)

\* build_2d_tree: if (points.empty()) return nullptr;
BuildEmpty ==
  /\ pc = "start" /\ points = <<>>
  /\ pc' = "built"
  /\ root' = Null
  /\ UNCHANGED <<points, capacity, current_level, query, vo, result, tamper, rebuild, first_root, stats>>

\* build_2d_tree: std::sort(points.begin(), points.end());
BuildSort ==
  /\ pc = "start" /\ points # <<>>
  /\ points' \in std_sort(points)
  /\ pc' = "leaves"
  /\ UNCHANGED <<capacity, current_level, root, query, vo, result, tamper, rebuild, first_root, stats>>

\* build_2d_tree: the leaf-chunking loop.
BuildLeaves ==
  /\ pc = "leaves" /\ capacity > 0
  /\ current_level' = leaf_level(points, capacity, 0, <<>>)
  /\ pc' = "levels"
  /\ UNCHANGED <<points, capacity, root, query, vo, result, tamper, rebuild, first_root, stats>>

\* build_2d_tree: one pass of while (current_level.size() > 1).
BuildLevel ==
  /\ pc = "levels" /\ Len(current_level) > 1
  /\ height_2d_tree(current_level[1]) < MaxHeight
  /\ current_level' = next_level(current_level, capacity, 0, <<>>)
  /\ UNCHANGED <<points, capacity, pc, root, query, vo, result, tamper, rebuild, first_root, stats>>

\* build_2d_tree: return current_level.empty() ? nullptr : current_level[0];
BuildReturn ==
  /\ pc = "levels" /\ Len(current_level) <= 1
  /\ root' = IF current_level = <<>> THEN Null ELSE current_level[1]
  /\ current_level' = <<>>
  /\ pc' = "built"
  /\ UNCHANGED <<points, capacity, query, vo, result, tamper, rebuild, first_root, stats>>

\* query_and_verify_2d: the counters are reset, then
\* VObject2D *vo = range_query_2d(root, query, stats);
QueryFrom(rects) ==
  /\ pc = "built"
  /\ \E q \in rects :
       /\ query' = q
       /\ vo' = range_query_2d(root, q)
       /\ stats' = range_query_2d_stats(root, q, reset_stats(stats))
  /\ pc' = "queried"
  /\ UNCHANGED <<points, capacity, current_level, root, result, tamper, rebuild, first_root>>

Query == QueryFrom(ValidQueryRects)

\* query_and_verify_2d: VResult2D *result = verify_2d(vo, query, stats);
Verify ==
  /\ pc = "queried"
  /\ result' = verify_2d(vo, query)
  /\ stats' = verify_2d_stats(vo, query, stats)
  /\ pc' = "verified"
  /\ UNCHANGED <<points, capacity, current_level, root, query, vo, tamper, rebuild, first_root>>

Next ==
  \/ BuildEmpty
  \/ BuildSort
  \/ BuildLeaves
  \/ BuildLevel
  \/ BuildReturn
  \/ Query
  \/ Verify

Spec == Init /\ [][Next]_vars

\* ------------------------------------------------ tree and VO walks
\* The points of a tree, leaf by leaf, left to right.
RECURSIVE TreePoints(_)
RECURSIVE TreePointsOf(_)
TreePointsOf(ch) ==
  IF ch = <<>> THEN <<>> ELSE TreePoints(Head(ch)) \o TreePointsOf(Tail(ch))

TreePoints(node) ==
  IF node = Null THEN <<>>
  ELSE IF node.type = "N2D_LEAF" THEN node.points
  ELSE TreePointsOf(node.children)

\* The point sequences of a tree's leaves, left to right.
RECURSIVE TreeLeaves(_)
RECURSIVE TreeLeavesOf(_)
TreeLeavesOf(ch) ==
  IF ch = <<>> THEN <<>> ELSE TreeLeaves(Head(ch)) \o TreeLeavesOf(Tail(ch))

TreeLeaves(node) ==
  IF node = Null THEN <<>>
  ELSE IF node.type = "N2D_LEAF" THEN <<node.points>>
  ELSE TreeLeavesOf(node.children)

\* The point sequences of a VO's VO_Leaf nodes, left to right.
RECURSIVE VOLeaves(_)
RECURSIVE VOLeavesOf(_)
VOLeavesOf(ch) ==
  IF ch = <<>> THEN <<>> ELSE VOLeaves(Head(ch)) \o VOLeavesOf(Tail(ch))

VOLeaves(v) ==
  IF v.type = "V2D_LEAF" THEN <<v.points>>
  ELSE IF v.type = "V2D_CONTAINER" THEN VOLeavesOf(v.children)
  ELSE <<>>

\* The paths (child indices from the top) of all nodes of a VO.
RECURSIVE VOPaths(_)
VOPaths(v) ==
  {<<>>} \cup
  (IF v.type = "V2D_CONTAINER"
   THEN UNION {{<<i>> \o path : path \in VOPaths(v.children[i])} :
               i \in 1..Len(v.children)}
   ELSE {})

RECURSIVE VOAt(_, _)
VOAt(v, path) ==
  IF path = <<>> THEN v ELSE VOAt(v.children[Head(path)], Tail(path))

RECURSIVE VOReplace(_, _, _)
VOReplace(v, path, new) ==
  IF path = <<>> THEN new
  ELSE [v EXCEPT !.children[Head(path)] = VOReplace(@, Tail(path), new)]

\* The tree node a VO node stands for: the VO of an honest query mirrors the tree.
RECURSIVE NodeAt(_, _)
NodeAt(node, path) ==
  IF path = <<>> THEN node ELSE NodeAt(node.children[Head(path)], Tail(path))

RECURSIVE IsSubseq(_, _)
IsSubseq(a, b) ==
  IF a = <<>> THEN TRUE
  ELSE IF b = <<>> THEN FALSE
  ELSE IF Head(a) = Head(b) THEN IsSubseq(Tail(a), Tail(b))
  ELSE IsSubseq(a, Tail(b))

SeqToBag(s) ==
  [e \in {s[i] : i \in DOMAIN s} |-> Cardinality({i \in DOMAIN s : s[i] = e})]

\* What the caller gets from query_and_verify_2d: a null result carries no points.
ResultPoints == IF result = NullResult THEN <<>> ELSE result.points

\* All nodes of a tree.
RECURSIVE TreeNodes(_)
TreeNodes(node) ==
  IF node = Null THEN {}
  ELSE {node} \cup UNION {TreeNodes(node.children[i]) : i \in 1..Len(node.children)}

\* The paths (child indices from the root) of all nodes of a tree.
RECURSIVE TreePaths(_)
TreePaths(node) ==
  {<<>>} \cup
  UNION {{<<i>> \o path : path \in TreePaths(node.children[i])} :
         i \in 1..Len(node.children)}

\* The query harness: if (result) { total_points_returned += result->count(); ... }
\* A non-null result is counted as a successful answer.
HarnessAccepts == result # NullResult

\* The nodes at depth d below a node, left to right (the node itself at 0).
RECURSIVE NodesAtDepth(_, _)
RECURSIVE NodesAtDepthOf(_, _)
NodesAtDepthOf(ch, d) ==
  IF ch = <<>> THEN <<>>
  ELSE NodesAtDepth(Head(ch), d) \o NodesAtDepthOf(Tail(ch), d)

NodesAtDepth(node, d) ==
  IF d = 0 THEN <<node>> ELSE NodesAtDepthOf(node.children, d - 1)

\* The number of points of a leaf or of children of an internal node.
NodeSize(node) ==
  IF node.type = "N2D_LEAF" THEN Len(node.points) ELSE Len(node.children)

\* ------------------------------------- a dishonest server or channel
\* verify_2d takes whatever VO the client was handed.  A dishonest prover or
\* channel hands over the honest VO changed in one place.
FlipLowBit(v) == IF v % 2 = 0 THEN v + 1 ELSE v - 1

AltPoints(p) ==
  {[p EXCEPT !.id = FlipLowBit(@)],
   [p EXCEPT !.loc.x = FlipLowBit(@)],
   [p EXCEPT !.loc.y = FlipLowBit(@)]}

AltRects(r) ==
  {[r EXCEPT !.lx = FlipLowBit(@)], [r EXCEPT !.ly = FlipLowBit(@)],
   [r EXCEPT !.ux = FlipLowBit(@)], [r EXCEPT !.uy = FlipLowBit(@)]}

RECURSIVE TreeHashes(_)
TreeHashes(node) ==
  IF node = Null THEN {}
  ELSE {node.hash} \cup UNION {TreeHashes(node.children[i]) : i \in 1..Len(node.children)}

AltHashes(h) == ({ZeroHash, sha256(EmptyBuffer)} \cup TreeHashes(root)) \ {h}

\* The VOs that differ from v in one field (id, x or y) of one point of one
\* VO_Leaf.
TamperedPointVOs(v) ==
  UNION {
    IF VOAt(v, path).type = "V2D_LEAF"
    THEN {VOReplace(v, path, [VOAt(v, path) EXCEPT !.points[i] = p]) :
            <<i, p>> \in UNION {{<<j, a>> : a \in AltPoints(VOAt(v, path).points[j])} :
                                j \in 1..Len(VOAt(v, path).points)}}
    ELSE {} : path \in VOPaths(v)}

\* The VOs that differ from v in the mbr of one VO_Pruned.
TamperedPrunedRectVOs(v) ==
  UNION {
    IF VOAt(v, path).type = "V2D_PRUNED"
    THEN {VOReplace(v, path, [VOAt(v, path) EXCEPT !.rect = r]) :
            r \in AltRects(VOAt(v, path).rect)}
    ELSE {} : path \in VOPaths(v)}

\* The VOs that differ from v in the digest of one VO_Pruned.
TamperedPrunedHashVOs(v) ==
  UNION {
    IF VOAt(v, path).type = "V2D_PRUNED"
    THEN {VOReplace(v, path, [VOAt(v, path) EXCEPT !.hash = h]) :
            h \in AltHashes(VOAt(v, path).hash)}
    ELSE {} : path \in VOPaths(v)}

\* The VOs in which one leaf or explored subtree of v is replaced by a
\* VO_Pruned that carries the true MBR and digest of the tree node it stands for.
SubstitutedVOs(v) ==
  UNION {
    IF VOAt(v, path).type \in {"V2D_LEAF", "V2D_CONTAINER"}
    THEN {VOReplace(v, path,
                    VPruned2D(NodeAt(root, path).rect, NodeAt(root, path).hash))}
    ELSE {} : path \in VOPaths(v)}

\* verify_2d on a VO the client received changed in the way `kind` names.
VerifyReceived(kind, received) ==
  /\ pc = "queried" /\ vo # NullVO
  /\ \E v \in received :
       /\ vo' = v
       /\ result' = verify_2d(v, query)
       /\ stats' = verify_2d_stats(v, query, stats)
  /\ tamper' = kind
  /\ pc' = "verified"
  /\ UNCHANGED <<points, capacity, current_level, root, query, rebuild, first_root>>

VerifyTamperedPoint == VerifyReceived("point", TamperedPointVOs(vo))

VerifyTamperedPrunedRect == VerifyReceived("pruned_rect", TamperedPrunedRectVOs(vo))

VerifyTamperedPrunedHash == VerifyReceived("pruned_hash", TamperedPrunedHashVOs(vo))

VerifySubstituted == VerifyReceived("substituted", SubstitutedVOs(vo))

NextAdv ==
  \/ BuildEmpty
  \/ BuildSort
  \/ BuildLeaves
  \/ BuildLevel
  \/ BuildReturn
  \/ Query
  \/ Verify
  \/ VerifyTamperedPoint
  \/ VerifyTamperedPrunedRect
  \/ VerifyTamperedPrunedHash
  \/ VerifySubstituted

SpecAdv == Init /\ [][NextAdv]_vars

\* --------------------------------------------------- building twice
\* The caller builds again from the vector the first build sorted in place.
RebuildSame ==
  /\ pc = "built" /\ rebuild = "none"
  /\ first_root' = root
  /\ root' = Null
  /\ rebuild' = "same"
  /\ pc' = "start"
  /\ UNCHANGED <<points, capacity, current_level, query, vo, result, tamper, stats>>

\* The caller builds again from a permutation of the same points.
RebuildPermuted ==
  /\ pc = "built" /\ rebuild = "none"
  /\ points' \in PermutationsOf(points)
  /\ first_root' = root
  /\ root' = Null
  /\ rebuild' = "permuted"
  /\ pc' = "start"
  /\ UNCHANGED <<capacity, current_level, query, vo, result, tamper, stats>>

NextRebuild ==
  \/ BuildEmpty
  \/ BuildSort
  \/ BuildLeaves
  \/ BuildLevel
  \/ BuildReturn
  \/ RebuildSame
  \/ RebuildPermuted

SpecRebuild == Init /\ [][NextRebuild]_vars

\* ------------------------------------------- the shape of the tree
\* Datasets of up to MaxShapePoints points with fanouts up to MaxShapeCap:
\* n distinct points on the diagonal, handed over in ascending or in
\* descending order.
ShapePoints(n) == [i \in 1..n |-> Point2D(i - 1, i - 1, i - 1)]

Reverse(s) == [i \in 1..Len(s) |-> s[Len(s) + 1 - i]]

InitShape ==
  /\ \E n \in 0..MaxShapePoints : points \in {ShapePoints(n), Reverse(ShapePoints(n))}
  /\ capacity \in 1..MaxShapeCap
  /\ pc = "start"
  /\ current_level = <<>>
  /\ root = Null
  /\ query = EMPTY_RECT
  /\ vo = NullVO
  /\ result = NullResult
  /\ tamper = "none"
  /\ rebuild = "none"
  /\ first_root = Null
  /\ stats = QueryStats2D(0, 0, 0, 0)

NextShape ==
  \/ BuildEmpty
  \/ BuildSort
  \/ BuildLeaves
  \/ BuildLevel
  \/ BuildReturn

SpecShape == InitShape /\ [][NextShape]_vars

\* ------------------------------------------- the end-to-end scenarios
\* The dataset of scenarios S1 to S4, handed over in any order and built
\* with capacity 2; the query rectangles have their corners on the
\* coordinates the scenarios use.
ScenarioPoints ==
  <<Point2D(0, 0, 0), Point2D(1, 10, 10), Point2D(2, 20, 20), Point2D(3, 30, 30)>>

ScenarioCoords == {-1000, 5, 25, 100, 200, 1000}

ScenarioQueryRects ==
  {q \in [lx : ScenarioCoords, ly : ScenarioCoords,
          ux : ScenarioCoords, uy : ScenarioCoords] : q.lx <= q.ux /\ q.ly <= q.uy}

InitScenario ==
  /\ points \in PermutationsOf(ScenarioPoints)
  /\ capacity = 2
  /\ pc = "start"
  /\ current_level = <<>>
  /\ root = Null
  /\ query = EMPTY_RECT
  /\ vo = NullVO
  /\ result = NullResult
  /\ tamper = "none"
  /\ rebuild = "none"
  /\ first_root = Null
  /\ stats = QueryStats2D(0, 0, 0, 0)

QueryScenario == QueryFrom(ScenarioQueryRects)

NextScenario ==
  \/ BuildSort
  \/ BuildLeaves
  \/ BuildLevel
  \/ BuildReturn
  \/ QueryScenario
  \/ Verify

SpecScenario == InitScenario /\ [][NextScenario]_vars

\* ------------------------------------- arguments outside the contract
\* A caller may pass capacity 0 (it is a size_t) and a rectangle with
\* lx > ux or ly > uy.
InitUsage ==
  /\ points \in PointSeqs
  /\ capacity \in 0..MaxCap
  /\ pc = "start"
  /\ current_level = <<>>
  /\ root = Null
  /\ query = EMPTY_RECT
  /\ vo = NullVO
  /\ result = NullResult
  /\ tamper = "none"
  /\ rebuild = "none"
  /\ first_root = Null
  /\ stats = QueryStats2D(0, 0, 0, 0)

\* build_2d_tree with capacity 0: N_PARTS_2D(points.size(), 0) divides by
\* zero, which is undefined: the process is killed by the trap, or the
\* division yields a value and the build goes on into the leaf loop.
BuildReserveZero ==
  /\ pc = "leaves" /\ capacity = 0
  /\ pc' \in {"crashed", "leaf_loop"}
  /\ UNCHANGED <<points, capacity, current_level, root, query, vo, result, tamper, rebuild, first_root, stats>>

\* build_2d_tree with capacity 0, one pass of the leaf loop: i += 0 leaves
\* i at 0 < points.size(), end = min(points.size(), 0) = 0, the chunk is
\* empty and an empty leaf is pushed.
BuildLeafLoopZero ==
  /\ pc = "leaf_loop" /\ capacity = 0
  /\ Len(current_level) < MaxZeroLoop
  /\ current_level' = Append(current_level, make_leaf_2d(SubSeq(points, 1, Min(Len(points), 0))))
  /\ UNCHANGED <<points, capacity, pc, root, query, vo, result, tamper, rebuild, first_root, stats>>

InvalidQueryRects == QueryRects \ ValidQueryRects

QueryInvalid == QueryFrom(InvalidQueryRects)

NextUsage ==
  \/ BuildEmpty
  \/ BuildSort
  \/ BuildLeaves
  \/ BuildReserveZero
  \/ BuildLeafLoopZero
  \/ BuildLevel
  \/ BuildReturn
  \/ QueryInvalid
  \/ Verify

SpecUsage == InitUsage /\ [][NextUsage]_vars

\* ------------------------------------------- a collector in use
\* The caller hands query_and_verify_2d a collector that still holds the
\* counts of an earlier query.
StaleStats ==
  {QueryStats2D(nodes, nodes, pts, pts) : nodes \in {0, MaxStale}, pts \in {0, MaxStale}}

InitStats ==
  /\ points \in PointSeqs
  /\ capacity \in 1..MaxCap
  /\ pc = "start"
  /\ current_level = <<>>
  /\ root = Null
  /\ query = EMPTY_RECT
  /\ vo = NullVO
  /\ result = NullResult
  /\ tamper = "none"
  /\ rebuild = "none"
  /\ first_root = Null
  /\ stats \in StaleStats

SpecStats == InitStats /\ [][Next]_vars

\* ------------------------------------------------------------ claims
InsideQuery(p) ==
  /\ query.lx <= p.loc.x /\ p.loc.x <= query.ux
  /\ query.ly <= p.loc.y /\ p.loc.y <= query.uy

HasType(v, t) == v.type = t

\* C1: verify_2d applied to the VO that range_query_2d returned for a built
\* tree returns the (MBR, digest) pair stored in the tree root, whether the
\* root is a leaf, a pruned internal node or an explored internal node.
RoundTripDigest ==
  (pc = "verified" /\ tamper = "none" /\ root # Null) =>
    /\ result # NullResult
    /\ result.rect = root.rect
    /\ result.hash = root.hash

\* C1 witness: an explored root with a pruned internal child and an explored
\* internal child has been verified.
RoundTripDigestWitness ==
  /\ pc = "verified" /\ tamper = "none"
  /\ HasType(vo, "V2D_CONTAINER")
  /\ \E i \in 1..Len(vo.children) : HasType(vo.children[i], "V2D_PRUNED")
  /\ \E i \in 1..Len(vo.children) : HasType(vo.children[i], "V2D_CONTAINER")
  /\ result.hash = root.hash

\* C2: the multiset of points query_and_verify_2d returns equals the multiset
\* of dataset points inside the query, which is what the brute-force
\* range_query over the point list returns (duplicates counted).
Completeness ==
  (pc = "verified" /\ tamper = "none") =>
    SeqToBag(ResultPoints) = SeqToBag(range_query(points, query))

\* C2 witness: a query that pruned a subtree returned the same point twice.
CompletenessWitness ==
  /\ pc = "verified" /\ tamper = "none"
  /\ HasType(vo, "V2D_CONTAINER")
  /\ \E i \in 1..Len(vo.children) : HasType(vo.children[i], "V2D_PRUNED")
  /\ \E i, j \in 1..Len(ResultPoints) : i < j /\ ResultPoints[i] = ResultPoints[j]
  /\ Len(ResultPoints) < Len(points)

\* C3: every point in the result of verify_2d, whether the VO is honest or
\* not, satisfies q.lx <= x <= q.ux and q.ly <= y <= q.uy.
Soundness ==
  pc = "verified" =>
    \A i \in 1..Len(ResultPoints) : InsideQuery(ResultPoints[i])

\* C3 witness: a VO with a changed point and a leaf holding a point outside
\* the query has been verified and returned points.
SoundnessWitness ==
  /\ pc = "verified" /\ tamper = "point"
  /\ Len(ResultPoints) > 0
  /\ \E l \in 1..Len(VOLeaves(vo)) :
       \E i \in 1..Len(VOLeaves(vo)[l]) : ~InsideQuery(VOLeaves(vo)[l][i])

\* C4: for any VO for which verify_2d returns the trusted root digest, the
\* returned points are exactly the dataset points inside the query; a VO
\* that replaces an intersecting subtree or a leaf holding qualifying points
\* by a VO_Pruned with the true MBR and digest does not verify.
CompletenessAgainstProver ==
  (pc = "verified" /\ root # Null /\ result.hash = root.hash) =>
    SeqToBag(ResultPoints) = SeqToBag(range_query(points, query))

\* C5: changing the id, x or y of one point in one VO_Leaf of an honest VO
\* makes the digest verify_2d returns differ from the build-time root digest.
TamperDetection ==
  (pc = "verified" /\ tamper = "point") => result.hash # root.hash

\* C5 witness: a point was changed in a leaf below an explored internal node
\* and the VO was verified.
TamperDetectionWitness ==
  /\ pc = "verified" /\ tamper = "point"
  /\ HasType(vo, "V2D_CONTAINER")
  /\ \E i \in 1..Len(vo.children) : HasType(vo.children[i], "V2D_CONTAINER")

\* C6: changing the mbr or the digest of any VO_Pruned of an honest VO, the
\* one at the top of the VO included, changes the digest verify_2d returns.
PruneWitnessDetection ==
  (pc = "verified" /\ tamper \in {"pruned_rect", "pruned_hash"}) =>
    result.hash # root.hash

\* C7: the points verify_2d returns are the points of the tree's in-order
\* leaf traversal (the comparator-sorted dataset) that satisfy the query, in
\* that order, and the VO's leaves in order are a subsequence of the tree's
\* leaves in order.
ResultOrder ==
  (pc = "verified" /\ tamper = "none" /\ root # Null) =>
    /\ TreePoints(root) = points
    /\ IsSorted(points)
    /\ result.points = SelectSeq(TreePoints(root), InsideQuery)
    /\ IsSubseq(VOLeaves(vo), TreeLeaves(root))

\* C7 witness: a query returned two or more points from different leaves and
\* skipped a point that lies between them in the tree's order.
ResultOrderWitness ==
  /\ pc = "verified" /\ tamper = "none"
  /\ Len(VOLeaves(vo)) >= 2
  /\ \E i, j, k \in 1..Len(points) :
       /\ i < j /\ j < k
       /\ InsideQuery(points[i]) /\ ~InsideQuery(points[j]) /\ InsideQuery(points[k])
       /\ points[i] # points[k]

\* C8: build_2d_tree on a permutation of a point sequence yields the same
\* root digest, also when two points have equal (x, y) and different ids.
OrderInsensitivity ==
  (pc = "built" /\ rebuild = "permuted" /\ root # Null) =>
    root.hash = first_root.hash

\* C9: build_2d_tree run again on the sequence the first run sorted in place
\* yields an identical tree.
Determinism ==
  (pc = "built" /\ rebuild = "same") => root = first_root

\* C10: build_2d_tree terminates for every positive capacity: each pass of
\* the level-building loop strictly reduces the number of nodes in the
\* current level.
LevelPassShrinks ==
  [][(pc = "levels" /\ pc' = "levels") =>
       Len(current_level') < Len(current_level)]_vars

\* The least h >= 0 with c^h >= n: ceil(log_c(n)) for n >= 1, c >= 2.
RECURSIVE CeilLogFrom(_, _, _, _)
CeilLogFrom(c, n, h, power) ==
  IF power >= n THEN h ELSE CeilLogFrom(c, n, h + 1, power * c)

CeilLog(c, n) == CeilLogFrom(c, n, 0, 1)

\* C11: for N > 0 points and capacity c >= 2 the height of the built tree,
\* a lone leaf counting 1, equals ceil(log_c(N)), N = 1 included.
HeightLogarithm ==
  (pc = "built" /\ root # Null /\ capacity >= 2) =>
    height_2d_tree(root) = CeilLog(capacity, Len(points))

\* C11 amended: the height equals ceil(log_c(N)) for N >= 2 and is 1 for
\* N = 1.
HeightLogarithmFromTwo ==
  (pc = "built" /\ root # Null /\ capacity >= 2) =>
    height_2d_tree(root) =
      IF Len(points) = 1 THEN 1 ELSE CeilLog(capacity, Len(points))

\* C11 witness: a tree of height 3 was built from more than 4 points with
\* fanout 2.
HeightLogarithmWitness ==
  /\ pc = "built" /\ root # Null /\ capacity = 2
  /\ height_2d_tree(root) = 3
  /\ Len(points) > 4

\* C12: in a tree build_2d_tree returned for a non-empty dataset every leaf
\* holds between 1 and capacity points and every internal node between 1 and
\* capacity children, the root included.
CapacityBound ==
  (pc = "built" /\ root # Null) =>
    \A node \in TreeNodes(root) :
      IF node.type = "N2D_LEAF"
      THEN Len(node.points) >= 1 /\ Len(node.points) <= capacity
      ELSE Len(node.children) >= 1 /\ Len(node.children) <= capacity

\* C12 witness: a returned tree of three levels has a full leaf, a leaf that
\* is not full and an internal node with a single child.
CapacityBoundWitness ==
  /\ pc = "built" /\ root # Null /\ capacity >= 2
  /\ height_2d_tree(root) = 3
  /\ \E node \in TreeNodes(root) :
       node.type = "N2D_LEAF" /\ Len(node.points) = capacity
  /\ \E node \in TreeNodes(root) :
       node.type = "N2D_LEAF" /\ Len(node.points) < capacity
  /\ \E node \in TreeNodes(root) :
       node.type = "N2D_INT" /\ Len(node.children) = 1

SetMin(S) == CHOOSE m \in S : \A e \in S : m <= e

SetMax(S) == CHOOSE m \in S : \A e \in S : m >= e

\* The smallest rectangle that contains the rectangles of a non-empty set.
BoundingRect(rects) ==
  Rectangle(SetMin({r.lx : r \in rects}), SetMin({r.ly : r \in rects}),
            SetMax({r.ux : r \in rects}), SetMax({r.uy : r \in rects}))

PointRect(p) == Rectangle(p.loc.x, p.loc.y, p.loc.x, p.loc.y)

\* C13: in a returned tree each leaf's MBR is the smallest rectangle that
\* contains its points, each internal node's MBR is the enlargement of the
\* empty sentinel by its children's MBRs, and every point below a node lies
\* inside the node's MBR.
Tightness ==
  (pc = "built" /\ root # Null) =>
    \A node \in TreeNodes(root) :
      /\ node.rect =
           IF node.type = "N2D_LEAF"
           THEN BoundingRect({PointRect(node.points[i]) : i \in 1..Len(node.points)})
           ELSE BoundingRect({EMPTY_RECT} \cup
                             {node.children[i].rect : i \in 1..Len(node.children)})
      /\ \A i \in 1..Len(TreePoints(node)) :
           LET p == TreePoints(node)[i]
           IN  /\ node.rect.lx <= p.loc.x /\ p.loc.x <= node.rect.ux
               /\ node.rect.ly <= p.loc.y /\ p.loc.y <= node.rect.uy

\* C13 witness: a returned tree of three levels whose root MBR has positive
\* width and height and is larger than the MBR of its last child.
TightnessWitness ==
  /\ pc = "built" /\ root # Null
  /\ height_2d_tree(root) = 3
  /\ root.rect.lx < root.rect.ux /\ root.rect.ly < root.rect.uy
  /\ root.children[Len(root.children)].rect # root.rect

\* The paths of the tree leaves all of whose ancestors' MBRs intersect the
\* query; the leaf's own MBR is not looked at.
ReachedLeafPaths ==
  {path \in TreePaths(root) :
     /\ NodeAt(root, path).type = "N2D_LEAF"
     /\ \A k \in 0..(Len(path) - 1) :
          intersect(NodeAt(root, SubSeq(path, 1, k)).rect, query)}

VOLeafPaths == {path \in VOPaths(vo) : VOAt(vo, path).type = "V2D_LEAF"}

\* C14: the VO_Leaf nodes of the VO range_query_2d returns are, position by
\* position, the tree leaves all of whose ancestors' MBRs intersect the
\* query, each with the leaf's full point sequence.
StructuralPreservation ==
  (pc = "queried" /\ root # Null) =>
    /\ VOLeafPaths = ReachedLeafPaths
    /\ \A path \in VOLeafPaths : VOAt(vo, path).points = NodeAt(root, path).points

\* C14 witness: the VO of a three-level tree has a pruned subtree and a
\* VO_Leaf whose own MBR misses the query and none of whose points match.
StructuralPreservationWitness ==
  /\ pc = "queried" /\ root # Null
  /\ height_2d_tree(root) = 3
  /\ \E path \in VOPaths(vo) : VOAt(vo, path).type = "V2D_PRUNED"
  /\ \E path \in VOLeafPaths :
       /\ ~intersect(NodeAt(root, path).rect, query)
       /\ \A i \in 1..Len(VOAt(vo, path).points) :
            ~InsideQuery(VOAt(vo, path).points[i])

\* C15: scenario S2.  For the dataset {(0,0,0),(1,10,10),(2,20,20),(3,30,30)}
\* built with capacity 2 the query (100,100,200,200) yields no matching
\* points and a VO that is one VO_Container whose two children are VO_Pruned.
ScenarioS2Container ==
  (pc = "verified" /\ query = Rectangle(100, 100, 200, 200)) =>
    /\ ResultPoints = <<>>
    /\ vo.type = "V2D_CONTAINER"
    /\ Len(vo.children) = 2
    /\ vo.children[1].type = "V2D_PRUNED"
    /\ vo.children[2].type = "V2D_PRUNED"

\* C15 amended: the query (100,100,200,200) yields no matching points and a
\* VO that is one VO_Pruned carrying the MBR (0,0,30,30) and the digest of
\* the root.
ScenarioS2Pruned ==
  (pc = "verified" /\ query = Rectangle(100, 100, 200, 200)) =>
    /\ ResultPoints = <<>>
    /\ vo.type = "V2D_PRUNED"
    /\ vo.rect = Rectangle(0, 0, 30, 30)
    /\ vo.hash = root.hash

\* C15 witness: the scenario's tree, two leaves of two points below the
\* root, has answered the query (100,100,200,200).
ScenarioS2Witness ==
  /\ pc = "verified" /\ query = Rectangle(100, 100, 200, 200)
  /\ points = ScenarioPoints
  /\ height_2d_tree(root) = 2
  /\ TreeLeaves(root) = <<SubSeq(ScenarioPoints, 1, 2), SubSeq(ScenarioPoints, 3, 4)>>

\* Rectangle outer contains rectangle inner.
Covers(outer, inner) ==
  /\ outer.lx <= inner.lx /\ inner.ux <= outer.ux
  /\ outer.ly <= inner.ly /\ inner.uy <= outer.uy

\* C16: for a query rectangle that contains the root's MBR the VO has no
\* VO_Pruned node and query_and_verify_2d returns every dataset point, in
\* the tree's sorted order.
FullCover ==
  (pc = "verified" /\ tamper = "none" /\ root # Null /\ Covers(query, root.rect)) =>
    /\ \A path \in VOPaths(vo) : VOAt(vo, path).type # "V2D_PRUNED"
    /\ result.points = TreePoints(root)
    /\ result.points = points
    /\ IsSorted(result.points)

\* C16 witness: a three-level tree over five points answered a query that
\* contains the root's MBR and is larger than it.
FullCoverWitness ==
  /\ pc = "verified" /\ tamper = "none" /\ root # Null
  /\ Covers(query, root.rect) /\ query # root.rect
  /\ height_2d_tree(root) = 3
  /\ Len(result.points) = 5

\* C17: the construction harness's correctness test.  count_points_2d of the
\* VO range_query_2d returns equals count_in_range(points, query), the
\* brute-force number of dataset points inside the query.
HarnessCountsAgree ==
  (pc = "queried" /\ root # Null) =>
    count_points_2d(vo) = count_in_range(points, query)

\* C18: build_2d_tree on an empty point sequence returns a null root, and
\* querying and verifying a null root returns an empty result (no points,
\* a conventional empty digest), not a null result.
EmptyTreeResult ==
  /\ (pc = "built" /\ points = <<>>) => root = Null
  /\ (pc = "verified" /\ tamper = "none" /\ root = Null) =>
       (result # NullResult /\ result.points = <<>>)

\* C19: build_2d_tree called with capacity 0 on a non-empty point sequence
\* terminates with a usage error (a null tree); it neither divides by zero
\* nor loops in the leaf-chunking loop.
ZeroCapacityRejected ==
  (capacity = 0 /\ points # <<>> /\ pc \notin {"start", "leaves"}) =>
    (pc = "built" /\ root = Null)

\* C20: range_query_2d and query_and_verify_2d called with a rectangle that
\* has lx > ux or ly > uy report a usage error and produce neither a VO nor
\* a verification result.
InvalidQueryRejected ==
  (/\ pc \in {"queried", "verified"}
   /\ root # Null
   /\ (query.lx > query.ux \/ query.ly > query.uy)) =>
    (vo = NullVO /\ result = NullResult)

\* C21: a verification mismatch is never a silent success.  Whenever the
\* query harness counts a result as a successful answer, the digest
\* recomputed from the VO equals the trusted root digest.
MismatchRejected ==
  (pc = "verified" /\ root # Null) =>
    (HarnessAccepts => result.hash = root.hash)

\* The VO node that stands for tree node `node` under the current query.
StandsFor(v, node) ==
  IF node.type = "N2D_LEAF"
  THEN v.type = "V2D_LEAF" /\ v.points = node.points
  ELSE IF intersect(node.rect, query)
       THEN v.type = "V2D_CONTAINER"
       ELSE v.type = "V2D_PRUNED" /\ v.rect = node.rect /\ v.hash = node.hash

\* C22: at every internal node whose MBR intersects the query the VO has a
\* VO_Container with one child VO per tree child, in the tree's child
\* order; the i-th child VO stands for the i-th tree child, whether or not
\* that child's MBR intersects the query, and no child is dropped.
AllChildrenVisited ==
  (pc = "queried" /\ root # Null) =>
    \A path \in TreePaths(root) :
      LET node == NodeAt(root, path)
      IN  (/\ node.type = "N2D_INT"
           /\ \A k \in 0..Len(path) : intersect(NodeAt(root, SubSeq(path, 1, k)).rect, query)) =>
            /\ path \in VOPaths(vo)
            /\ VOAt(vo, path).type = "V2D_CONTAINER"
            /\ Len(VOAt(vo, path).children) = Len(node.children)
            /\ \A i \in 1..Len(node.children) :
                 StandsFor(VOAt(vo, path).children[i], node.children[i])

\* C22 witness: below an explored root an explored internal node has a leaf
\* child whose MBR misses the query, and the root has a pruned child too.
AllChildrenVisitedWitness ==
  /\ pc = "queried" /\ root # Null
  /\ vo.type = "V2D_CONTAINER" /\ Len(vo.children) = 2
  /\ \E i, j \in 1..2 :
       /\ vo.children[i].type = "V2D_PRUNED"
       /\ vo.children[j].type = "V2D_CONTAINER"
       /\ \E k \in 1..Len(root.children[j].children) :
            ~intersect(root.children[j].children[k].rect, query)

\* The number of nodes of a VO of one type, and the points its leaves carry.
VONodeCount(v, types) ==
  Cardinality({path \in VOPaths(v) : VOAt(v, path).type \in types})

RECURSIVE SumLen(_)
SumLen(seqs) == IF seqs = <<>> THEN 0 ELSE Len(Head(seqs)) + SumLen(Tail(seqs))

\* C23: after range_query_2d with counters that started at zero,
\* nodes_visited is the number of nodes of the VO, nodes_pruned the number
\* of its VO_Pruned nodes and points_examined the sum of the sizes of its
\* VO_Leaf nodes; hence nodes_pruned <= nodes_visited.
QueryStatistics ==
  (pc = "queried" /\ root # Null) =>
    /\ stats.nodes_visited = VONodeCount(vo, {"V2D_LEAF", "V2D_PRUNED", "V2D_CONTAINER"})
    /\ stats.nodes_pruned = VONodeCount(vo, {"V2D_PRUNED"})
    /\ stats.points_examined = SumLen(VOLeaves(vo))
    /\ stats.nodes_pruned <= stats.nodes_visited

\* C23 witness: the collector counted a query that pruned a subtree and
\* reached at least two leaves.
QueryStatisticsWitness ==
  /\ pc = "queried" /\ root # Null
  /\ stats.nodes_pruned >= 1
  /\ stats.nodes_visited >= 5
  /\ stats.points_examined >= 3
  /\ Len(VOLeaves(vo)) >= 2

\* C24: after query_and_verify_2d with a collector attached, whatever the
\* collector held before, points_returned is the number of points in the
\* result and points_returned <= points_examined; the four counters are
\* reset at the start of the call and do not decrease afterwards within it.
StatisticsAfterCall ==
  /\ [](pc = "verified" =>
          /\ stats.points_returned = Len(ResultPoints)
          /\ stats.points_returned <= stats.points_examined)
  /\ [](pc = "queried" =>
          /\ stats.points_returned = 0
          /\ stats.nodes_visited <= Cardinality(VOPaths(vo))
          /\ stats.nodes_pruned <= stats.nodes_visited
          /\ stats.points_examined <= Len(points))
  /\ [][(pc = "queried" /\ pc' = "verified") =>
          /\ stats'.nodes_visited >= stats.nodes_visited
          /\ stats'.nodes_pruned >= stats.nodes_pruned
          /\ stats'.points_examined >= stats.points_examined
          /\ stats'.points_returned >= stats.points_returned]_vars

\* C24 witness: a call that pruned a subtree examined more points than it
\* returned and returned at least two.
StatisticsAfterCallWitness ==
  /\ pc = "verified" /\ root # Null
  /\ stats.points_returned >= 2
  /\ stats.points_returned < stats.points_examined
  /\ stats.nodes_pruned >= 1

\* C25: build_2d_tree on N > 0 points leaves the input sequence a sorted
\* permutation of the original; the leaves' point sequences, left to right,
\* concatenate to that sorted sequence; every leaf except the last holds
\* exactly capacity points, and at every internal level every node except
\* the last holds exactly capacity children.
Packing ==
  /\ [][(pc = "start" /\ pc' # "start" /\ points # <<>>) =>
          /\ SeqToBag(points') = SeqToBag(points)
          /\ Len(points') = Len(points)
          /\ IsSorted(points')]_vars
  /\ [][pc # "start" => points' = points]_vars
  /\ []((pc = "built" /\ root # Null) =>
          /\ TreePoints(root) = points
          /\ \A d \in 0..(height_2d_tree(root) - 1) :
               LET level == NodesAtDepth(root, d)
               IN  \A i \in 1..(Len(level) - 1) : NodeSize(level[i]) = capacity)

\* C25 witness: a dataset was sorted and packed into three levels with a
\* short last leaf and a short last internal node.
PackingWitness ==
  /\ pc = "built" /\ root # Null
  /\ height_2d_tree(root) = 3
  /\ points = ShapePoints(Len(points))
  /\ LET leaves == NodesAtDepth(root, 2)
     IN  Len(leaves[Len(leaves)].points) < capacity
  /\ LET level == NodesAtDepth(root, 1)
     IN  Len(level[Len(level)].children) < capacity

\* C26: in a tree returned by build_2d_tree with capacity >= 2 all leaves
\* are at the same depth, the children of an internal node are all leaves
\* or all internal nodes, and count_2d_leaves(root) is ceil(N / capacity).
Balance ==
  (pc = "built" /\ root # Null /\ capacity >= 2) =>
    /\ \A p1, p2 \in TreePaths(root) :
         (NodeAt(root, p1).type = "N2D_LEAF" /\ NodeAt(root, p2).type = "N2D_LEAF") =>
           Len(p1) = Len(p2)
    /\ \A node \in TreeNodes(root) :
         \A i, j \in 1..Len(node.children) :
           node.children[i].type = node.children[j].type
    /\ count_2d_leaves(root) = (Len(points) + capacity - 1) \div capacity

\* C26 witness: a three-level tree whose last leaf is alone below its
\* parent has been returned.
BalanceWitness ==
  /\ pc = "built" /\ root # Null /\ capacity >= 2
  /\ height_2d_tree(root) = 3
  /\ count_2d_leaves(root) >= 3
  /\ LET level == NodesAtDepth(root, 1)
     IN  Len(level[Len(level)].children) = 1

\* C27: for the VO range_query_2d returns on a non-null root no
\* VO_Container holds a null child, verify_2d returns a non-null result for
\* every node of the VO, and query_and_verify_2d returns a non-null result.
NullSafety ==
  (pc \in {"queried", "verified"} /\ tamper = "none" /\ root # Null) =>
    /\ vo # NullVO
    /\ \A path \in VOPaths(vo) :
         /\ VOAt(vo, path) # NullVO
         /\ verify_2d(VOAt(vo, path), query) # NullResult
    /\ (pc = "verified" => result # NullResult)

\* C27 witness: a VO with a leaf, a pruned node and a nested container has
\* been verified and the result carries a point.
NullSafetyWitness ==
  /\ pc = "verified" /\ tamper = "none" /\ root # Null
  /\ \E path \in VOPaths(vo) : Len(path) = 2 /\ VOAt(vo, path).type = "V2D_LEAF"
  /\ \E path \in VOPaths(vo) : Len(path) = 1 /\ VOAt(vo, path).type = "V2D_PRUNED"
  /\ result # NullResult /\ Len(result.points) >= 1

====
